---- MODULE Spec2Model ----
(***************************************************************************)
(* Regulation change-detection pipeline of Compl.AI (src/RegScrapper.py).  *)
(*                                                                         *)
(* The store is the hosted relational database reached through `sb`: the   *)
(* `regulations` table (one row per (source, url)), the                    *)
(* `regulation_versions` table and the `regulation_change_log` table.      *)
(* A runner is one invocation of main(); it walks SOURCES in order and     *)
(* calls scrape_one on each.  Every external call of scrape_one (page      *)
(* fetch, store read, completion call, store write, change-log insert) is  *)
(* one step, so that two runners can interleave between any two of them.   *)
(***************************************************************************)
EXTENDS Integers, Sequences, FiniteSets, TLC

\* ---------------------------------------------------------------- bounds
\* Number of invocations of main() in one behaviour.
MaxRuns == 3

\* The entries of SOURCES the model walks, in list order (the code lists
\* six; every entry is handled by the same code and has a row of its own).
Sources == {1, 2}
NumSources == Cardinality(Sources)
\* The runner processes; the second one acts only under SpecConc.
Runners == {1, 2}

\* ---------------------------------------------------------------- config
\* SOURCES[s] = (label, url, category, lang); the url is the key s itself.
SourceTitle(s) == <<"title", s>>
SourceCategory(s) == <<"category", s>>
SourceLang(s) == "en"
SOURCE_AUTHORITY == "FINTRAC"

\* ---------------------------------------------------------------- pages
DateLine1 == "Date modified: 2024-01-01"
DateLine2 == "Date modified: 2024-02-02"
\* Lines matched by ^Date (modified|updated)\s*:\s*\d{4}-\d{2}-\d{2}
DateStampLines == {DateLine1, DateLine2}
\* The label and the date of a date stamp whose markup holds them in two
\* elements: <dt>Date modified:</dt><dd><time>2024-01-01</time></dd>.
DateLabel == "Date modified:"
Dates == {"2024-01-01", "2024-02-02"}
\* The lines the pages of the first url open with.
Intro == <<"title", "intro 1", "intro 2", "intro 3">>
\* len(line) of the lines of the pages.
Chars(line) ==
    CASE line \in {"para A", "para B"} -> 600
      [] line \in {"intro 1", "intro 2", "intro 3"} -> 80
      [] line = "title" -> 20
      [] line \in DateStampLines -> 25
      [] line = DateLabel -> 14
      [] OTHER -> 10
\* text.splitlines(), each line with its length.
AsLines(text) == [i \in 1..Len(text) |-> <<text[i], Chars(text[i])>>]

\* The pages the remote site may serve at the url of source s.  A page is
\* the sequence of the text nodes of its <main>, stripped:
\* get_text(separator="\n", strip=True) puts one node per line.  The first
\* url stamps its date in one node, the second in a label and a date.
PagesAt(s) ==
    IF s = 1
    THEN { Intro \o <<"para A", DateLine1>>, Intro \o <<"para A", DateLine2>>,
           Intro \o <<"para B", DateLine2>> }
    ELSE { <<"para A", DateLabel, "2024-01-01">>,
           <<"para A", DateLabel, "2024-02-02">> }
Pages == UNION {PagesAt(s) : s \in Sources}

RECURSIVE DropDateLines(_)
DropDateLines(lines) ==
    IF lines = <<>> THEN <<>>
    ELSE IF Head(lines) \in DateStampLines THEN DropDateLines(Tail(lines))
    ELSE <<Head(lines)>> \o DropDateLines(Tail(lines))

\* clean_text: the lines of get_text without those the date pattern matches.
clean_text(html) == DropDateLines(html)

\* sha256: an injective digest of the text (collisions are not modelled).
sha256(text) == <<"sha256", text>>

\* ---------------------------------------------------------------- values
NoRec == [absent |-> TRUE]
Unread == [unread |-> TRUE]
NoText == <<>>
\* A dict is a record of the values its keys read through .get, with a flag
\* per key that may be missing: has_regen for "regeneration_required",
\* has_raw for "raw".  A missing key reads None, which is falsy.
\* change_summary or {} : the empty object the RPC receives for "no verdict".
EmptySummary ==
    [kind |-> "empty", is_meaningful_change |-> FALSE,
     has_regen |-> FALSE, regeneration_required |-> FALSE, has_raw |-> FALSE]
\* The JSON object the completion service was asked for, all keys present.
ParsedSummary(m) ==
    [kind |-> "object", is_meaningful_change |-> m,
     has_regen |-> TRUE, regeneration_required |-> m, has_raw |-> FALSE]
\* {"is_meaningful_change": False, "reason": ..., "raw": txt}
FallbackSummary ==
    [kind |-> "fallback", is_meaningful_change |-> FALSE,
     has_regen |-> FALSE, regeneration_required |-> FALSE, has_raw |-> TRUE]
\* json.loads succeeded on a text that is not an object (a list, a string, a
\* number, null): the parsed value is returned as it is and has no .get.
NotObjectSummary ==
    [kind |-> "not_object", is_meaningful_change |-> FALSE,
     has_regen |-> FALSE, regeneration_required |-> FALSE, has_raw |-> FALSE]
\* The values of `summary` on which summary.get(...) can be evaluated.
IsDict(sm) == sm.kind # "not_object"

\* Texts the completion service may answer with.
\* "not_json" stands for every text json.loads rejects: free text, the empty
\* string, fenced or truncated JSON.
LLMResponses == {"json_meaningful", "json_cosmetic", "not_json", "json_not_object"}
\* Texts json.loads raises on.
NotParseable == {"not_json"}

\* summarize_meaningful_diff, from the text of the completion to its result:
\* whatever json.loads parsed, or the fallback dict when json.loads raises.
summarize_meaningful_diff(resp) ==
    CASE resp = "json_meaningful" -> ParsedSummary(TRUE)
      [] resp = "json_cosmetic" -> ParsedSummary(FALSE)
      [] resp = "json_not_object" -> NotObjectSummary
      [] OTHER -> FallbackSummary

\* Status classes of the final HTTP response that requests.get returns.
ReturnedStatuses == {"2xx", "3xx"}

VARIABLES
    regs,        \* regulations table: source -> row or NoRec
    versions,    \* regulation_versions table: source -> sequence of rows
    changelog,   \* regulation_change_log table: sequence of inserted rows
    rows,        \* source -> number of rows of regulations with its
                 \*           (source, url) key
    pc,          \* runner -> position in main()/scrape_one
    dry,         \* runner -> dry_run argument of main
    idx,         \* runner -> index into SOURCES of the current source
    status,      \* runner -> status class of the response fetch_html just got
    text,        \* runner -> local `text` of scrape_one
    new_hash,    \* runner -> local `new_hash`
    existing,    \* runner -> local `existing`
    summary,     \* runner -> local `summary`
    attempted,   \* runner -> sources scrape_one was called on in this run
    printed,     \* runner -> outcome lines printed in this run: count, last
                 \*           outcome, and the call whose exception it reports
    committed,   \* source -> number of committed seed and change writes
    runs,        \* number of invocations of main() so far
    \* openAIAPI.py, one call of evaluate_change(old_text, new_text):
    epc,         \* position in evaluate_change
    old_text,    \* argument old_text, a sequence of lines
    new_text,    \* argument new_text
    chunks,      \* what extract_changed_chunks returned
    results,     \* local `results`
    decision,    \* the returned dict, or NoDecision
    \* llm_adapter.py, one LLMAdapter and one call of generate_text on it:
    lpc,         \* position: the adapter is built, the request is posted, ...
    provider,    \* self.provider
    env,         \* the environment the adapter reads its settings from
    request,     \* the completion request posted to the provider, or
                 \* NoRequest
    \* regulation_scraper.py, one RegulationScraper and one crawl with it:
    cpc,          \* position: no scraper yet, crawling, crawl returned
    max_depth,    \* self.max_depth
    max_pages,    \* self.max_pages
    visited_urls, \* self.visited_urls
    fetched,      \* the session.get calls made so far: <<url, depth>> each
    stack,        \* the calls of scrape_url in progress, innermost last
    \* regulation_scraper.py, one call of process_all_regulations:
    bpc,          \* position in process_all_regulations
    table,        \* regulations table as this job sees it: id -> row
    regulations,  \* local `regulations`, the rows read at the start
    bi,           \* index of the loop into `regulations`, from 1
    happens,      \* what the site and the AI do for the regulation in hand
    result,       \* local `result` of the loop
    bresults      \* local `results`

vars == <<regs, versions, changelog, rows, pc, dry, idx, status, text,
          new_hash, existing, summary, attempted, printed, committed, runs,
          epc, old_text, new_text, chunks, results, decision,
          lpc, provider, env, request,
          cpc, max_depth, max_pages, visited_urls, fetched, stack,
          bpc, table, regulations, bi, happens, result, bresults>>

evaluation == <<epc, old_text, new_text, chunks, results, decision>>

store == <<regs, versions, changelog, rows>>

adapter == <<lpc, provider, env, request>>

\* The variables of the programs beside RegScrapper.py and openAIAPI.py.
crawl == <<cpc, max_depth, max_pages, visited_urls, fetched, stack>>

batch == <<bpc, table, regulations, bi, happens, result, bresults>>

other_programs == <<adapter, crawl, batch>>

\* datetime.now(): the clock reads the number of the run in progress.
now == runs
locals == <<status, text, new_hash, existing, summary>>

NoDecision == [none |-> TRUE]

\* No call of evaluate_change is in progress.
EvalIdle ==
    /\ epc = "idle"
    /\ old_text = <<>> /\ new_text = <<>>
    /\ chunks = <<>> /\ results = <<>>
    /\ decision = NoDecision

PipelineInit ==
    /\ regs = [s \in Sources |-> NoRec]
    /\ versions = [s \in Sources |-> <<>>]
    /\ changelog = <<>>
    /\ rows = [s \in Sources |-> 0]
    /\ pc = [r \in Runners |-> "done"]
    /\ dry = [r \in Runners |-> FALSE]
    /\ idx = [r \in Runners |-> 1]
    /\ status = [r \in Runners |-> "none"]
    /\ text = [r \in Runners |-> NoText]
    /\ new_hash = [r \in Runners |-> sha256(NoText)]
    /\ existing = [r \in Runners |-> Unread]
    /\ summary = [r \in Runners |-> EmptySummary]
    /\ attempted = [r \in Runners |-> <<>>]
    /\ printed = [r \in Runners |-> [n |-> 0, outcome |-> "none", raised |-> "none"]]
    /\ committed = [s \in Sources |-> 0]
    /\ runs = 0

NoRequest == [none |-> TRUE]
NoEnv == [unread |-> TRUE]

\* No LLMAdapter is built yet.
AdapterUnbuilt ==
    /\ lpc = "start"
    /\ provider = "none"
    /\ env = NoEnv
    /\ request = NoRequest

\* No RegulationScraper is built yet.
NoScraper ==
    /\ cpc = "start"
    /\ max_depth = 0 /\ max_pages = 0
    /\ visited_urls = {}
    /\ fetched = <<>>
    /\ stack = <<>>

NoOutcome == [none |-> TRUE]
NoResult == [none |-> TRUE]

\* process_all_regulations is not called yet.
JobNotStarted ==
    /\ bpc = "start"
    /\ table = <<>>
    /\ regulations = <<>>
    /\ bi = 1
    /\ happens = NoOutcome
    /\ result = NoResult
    /\ bresults = <<>>

Init == PipelineInit /\ EvalIdle /\ AdapterUnbuilt /\ NoScraper /\ JobNotStarted

\* ---------------------------------------------------------------- store
\* Mutant of RowsAfterUpsert: a plain insert, no ON CONFLICT clause.
RowsAfterUpsert_plain_insert(n, row) == n + 1

\* The number of rows with the key after upsert(..., on_conflict=
\* "source,url"), n being the number before: a row is inserted when no row
\* has the key, the row that has it is updated otherwise.
RowsAfterUpsert(n, row) == IF row = NoRec THEN n + 1 ELSE n

\* Mutant of upsert_page: last_updated is written whatever `changed` is.
upsert_page_always_updated(row, s, content, content_hash, changed, t) ==
    [title |-> SourceTitle(s), category |-> SourceCategory(s),
     lang |-> SourceLang(s), content |-> content,
     content_hash |-> content_hash, last_fetched |-> t, last_updated |-> t,
     current_version_no |-> IF row = NoRec THEN 0 ELSE row.current_version_no]

\* sb.table("regulations").upsert(payload, on_conflict="source,url"):
\* the payload's columns are written, every other column keeps its value
\* (or, on insert, its default).
upsert_page(row, s, content, content_hash, changed, t) ==
    LET base == IF row = NoRec
                THEN [title |-> SourceTitle(s), category |-> SourceCategory(s),
                      lang |-> SourceLang(s), content |-> content,
                      content_hash |-> content_hash, last_fetched |-> t,
                      last_updated |-> 0, current_version_no |-> 0]
                ELSE [row EXCEPT !.title = SourceTitle(s),
                                 !.category = SourceCategory(s),
                                 !.lang = SourceLang(s),
                                 !.content = content,
                                 !.content_hash = content_hash,
                                 !.last_fetched = t]
    IN IF changed THEN [base EXCEPT !.last_updated = t] ELSE base

\* Mutant of rpc_row: the content of an existing row is replaced and its
\* fingerprint is left as it was.
rpc_row_keeps_hash(row, s, content, content_hash, t) ==
    LET prev == IF row = NoRec THEN 0 ELSE row.current_version_no
    IN [title |-> SourceTitle(s), category |-> SourceCategory(s),
        lang |-> SourceLang(s), content |-> content,
        content_hash |-> IF row = NoRec THEN content_hash ELSE row.content_hash,
        last_fetched |-> t,
        last_updated |-> t, current_version_no |-> prev + 1]

\* The stored procedure upsert_regulation_with_version: the new row of the
\* regulations table.
rpc_row(row, s, content, content_hash, t) ==
    LET prev == IF row = NoRec THEN 0 ELSE row.current_version_no
    IN [title |-> SourceTitle(s), category |-> SourceCategory(s),
        lang |-> SourceLang(s), content |-> content,
        content_hash |-> content_hash, last_fetched |-> t,
        last_updated |-> t, current_version_no |-> prev + 1]

\* Mutant of rpc_versions: the latest version row is updated in place.
rpc_versions_overwriting(vs, row, content, content_hash, change_summary, t) ==
    LET prev == IF row = NoRec THEN 0 ELSE row.current_version_no
        v == [version_no |-> prev + 1, content |-> content,
              content_hash |-> content_hash,
              change_summary |-> change_summary, created_at |-> t]
    IN IF vs = <<>> THEN <<v>> ELSE [vs EXCEPT ![Len(vs)] = v]

\* The stored procedure upsert_regulation_with_version: the version history
\* after the call.
rpc_versions(vs, row, content, content_hash, change_summary, t) ==
    LET prev == IF row = NoRec THEN 0 ELSE row.current_version_no
    IN Append(vs, [version_no |-> prev + 1, content |-> content,
                   content_hash |-> content_hash,
                   change_summary |-> change_summary, created_at |-> t])

\* ---------------------------------------------------------------- main
CurSource(r) == idx[r]

\* The loop of main moves to the next source, or ends after the last one.
NextSource(r) ==
    IF idx[r] < NumSources
    THEN /\ idx' = [idx EXCEPT ![r] = @ + 1]
         /\ pc' = [pc EXCEPT ![r] = "fetch"]
    ELSE /\ idx' = idx
         /\ pc' = [pc EXCEPT ![r] = "done"]

\* Mutant of EndCycle: the exception of a failed source is not caught and
\* ends the run.
EndCycle_abort_on_error(r, outcome, raised) ==
    /\ printed' = [printed EXCEPT ![r] =
                      [n |-> @.n + 1, outcome |-> outcome, raised |-> raised]]
    /\ status' = [status EXCEPT ![r] = "none"]
    /\ text' = [text EXCEPT ![r] = NoText]
    /\ new_hash' = [new_hash EXCEPT ![r] = sha256(NoText)]
    /\ existing' = [existing EXCEPT ![r] = Unread]
    /\ summary' = [summary EXCEPT ![r] = EmptySummary]
    /\ IF outcome = "error"
       THEN idx' = idx /\ pc' = [pc EXCEPT ![r] = "done"]
       ELSE NextSource(r)

\* The end of one iteration of main's loop: scrape_one has returned or its
\* exception was caught, the outcome line is printed (for an error, with
\* the exception: `raised` names the call that raised it), the locals of
\* scrape_one are gone.
EndCycle(r, outcome, raised) ==
    /\ printed' = [printed EXCEPT ![r] =
                      [n |-> @.n + 1, outcome |-> outcome, raised |-> raised]]
    /\ status' = [status EXCEPT ![r] = "none"]
    /\ text' = [text EXCEPT ![r] = NoText]
    /\ new_hash' = [new_hash EXCEPT ![r] = sha256(NoText)]
    /\ existing' = [existing EXCEPT ![r] = Unread]
    /\ summary' = [summary EXCEPT ![r] = EmptySummary]
    /\ NextSource(r)

\* main(dry_run): a new run starts at the head of SOURCES.  Runs are
\* sequential (one runner) unless conc.
Begin(r, conc, d) ==
    /\ pc[r] = "done"
    /\ runs < MaxRuns
    /\ conc \/ r = 1
    /\ runs' = runs + 1
    /\ dry' = [dry EXCEPT ![r] = d]
    /\ idx' = [idx EXCEPT ![r] = 1]
    /\ attempted' = [attempted EXCEPT ![r] = <<>>]
    /\ printed' = [printed EXCEPT ![r] = [n |-> 0, outcome |-> "none", raised |-> "none"]]
    /\ pc' = [pc EXCEPT ![r] = "fetch"]
    /\ UNCHANGED <<other_programs, evaluation, store, locals, committed>>

\* fetch_html returns (raise_for_status raises on 4xx and 5xx only), then
\* clean_text and sha256.
FetchReturn(r) ==
    /\ pc[r] = "fetch"
    /\ \E st \in ReturnedStatuses, html \in PagesAt(CurSource(r)) :
          /\ status' = [status EXCEPT ![r] = st]
          /\ text' = [text EXCEPT ![r] = clean_text(html)]
          /\ new_hash' = [new_hash EXCEPT ![r] = sha256(clean_text(html))]
    /\ attempted' = [attempted EXCEPT ![r] = Append(@, CurSource(r))]
    /\ pc' = [pc EXCEPT ![r] = "read"]
    /\ UNCHANGED <<other_programs, evaluation, store, dry, idx, existing, summary, printed, committed,
                   runs>>

\* fetch_html raises: connection error, timeout, or HTTPError on 4xx/5xx.
FetchRaise(r) ==
    /\ pc[r] = "fetch"
    /\ attempted' = [attempted EXCEPT ![r] = Append(@, CurSource(r))]
    /\ EndCycle(r, "error", "fetch_html")
    /\ UNCHANGED <<other_programs, evaluation, store, dry, committed, runs>>

\* Mutant of ReadExisting: the select finds no row, whatever is stored.
ReadExisting_finds_nothing(r) ==
    /\ pc[r] = "read"
    /\ existing' = [existing EXCEPT ![r] = NoRec]
    /\ status' = [status EXCEPT ![r] = "none"]
    /\ pc' = [pc EXCEPT ![r] = "decide"]
    /\ UNCHANGED <<other_programs, evaluation, store, dry, idx, text, new_hash, summary,
                   attempted, printed, committed, runs>>

\* get_existing_regulation returns the stored row or None.
ReadExisting(r) ==
    /\ pc[r] = "read"
    /\ existing' = [existing EXCEPT ![r] = regs[CurSource(r)]]
    /\ status' = [status EXCEPT ![r] = "none"]
    /\ pc' = [pc EXCEPT ![r] = "decide"]
    /\ UNCHANGED <<other_programs, evaluation, store, dry, idx, text, new_hash, summary,
                   attempted, printed, committed, runs>>

\* get_existing_regulation raises (the store is unreachable).
ReadRaise(r) ==
    /\ pc[r] = "read"
    /\ EndCycle(r, "error", "get_existing_regulation")
    /\ UNCHANGED <<other_programs, evaluation, store, dry, attempted, committed, runs>>

\* ---------------------------------------------------------------- scrape_one
NoRecord(r) == existing[r] = NoRec
SameHash(r) == existing[r] # NoRec /\ existing[r].content_hash = new_hash[r]
\* Mutant of HashDiffers: every stored record counts as changed.
HashDiffers_whenever_stored(r) == existing[r] # NoRec
HashDiffers(r) == existing[r] # NoRec /\ existing[r].content_hash # new_hash[r]

\* Live seed: upsert_page(..., text, new_hash, changed=True).
Seed(r) ==
    /\ pc[r] = "decide" /\ NoRecord(r) /\ ~dry[r]
    /\ regs' = [regs EXCEPT ![CurSource(r)] =
                   upsert_page(@, CurSource(r), text[r], new_hash[r], TRUE, now)]
    /\ rows' = [rows EXCEPT ![CurSource(r)] =
                   RowsAfterUpsert(@, regs[CurSource(r)])]
    /\ committed' = [committed EXCEPT ![CurSource(r)] = @ + 1]
    /\ EndCycle(r, "inserted", "none")
    /\ UNCHANGED <<other_programs, evaluation, versions, changelog, dry, attempted, runs>>

\* Dry-run seed: prints what it would insert and returns.
DrySeed(r) ==
    /\ pc[r] = "decide" /\ NoRecord(r) /\ dry[r]
    /\ EndCycle(r, "would_insert", "none")
    /\ UNCHANGED <<other_programs, evaluation, store, dry, attempted, committed, runs>>

\* Mutant of Unchanged: the rows are matched on the source column alone,
\* so that the row of every url of the authority is stamped as fetched.
Unchanged_touches_every_row(r) ==
    /\ pc[r] = "decide" /\ SameHash(r) /\ ~dry[r]
    /\ regs' = [s \in Sources |->
                   IF s = CurSource(r)
                   THEN upsert_page(regs[s], s, existing[r].content,
                                    existing[r].content_hash, FALSE, now)
                   ELSE IF regs[s] = NoRec THEN NoRec
                   ELSE [regs[s] EXCEPT !.last_fetched = now]]
    /\ rows' = [rows EXCEPT ![CurSource(r)] =
                   RowsAfterUpsert(@, regs[CurSource(r)])]
    /\ EndCycle(r, "unchanged", "none")
    /\ UNCHANGED <<other_programs, evaluation, versions, changelog, dry, attempted, committed, runs>>

\* Live unchanged cycle: upsert_page(..., existing content and hash,
\* changed=False).
Unchanged(r) ==
    /\ pc[r] = "decide" /\ SameHash(r) /\ ~dry[r]
    /\ regs' = [regs EXCEPT ![CurSource(r)] =
                   upsert_page(@, CurSource(r), existing[r].content,
                               existing[r].content_hash, FALSE, now)]
    /\ rows' = [rows EXCEPT ![CurSource(r)] =
                   RowsAfterUpsert(@, regs[CurSource(r)])]
    /\ EndCycle(r, "unchanged", "none")
    /\ UNCHANGED <<other_programs, evaluation, versions, changelog, dry, attempted, committed, runs>>

\* Dry-run unchanged cycle: nothing is written.
DryUnchanged(r) ==
    /\ pc[r] = "decide" /\ SameHash(r) /\ dry[r]
    /\ EndCycle(r, "unchanged", "none")
    /\ UNCHANGED <<other_programs, evaluation, store, dry, attempted, committed, runs>>

\* Mutant of DryChange: the dry run stores the fetched text.
DryChange_updates_row(r) ==
    /\ pc[r] = "decide" /\ HashDiffers(r) /\ dry[r]
    /\ regs' = [regs EXCEPT ![CurSource(r)] =
                   upsert_page(@, CurSource(r), text[r], new_hash[r], TRUE, now)]
    /\ rows' = [rows EXCEPT ![CurSource(r)] =
                   RowsAfterUpsert(@, regs[CurSource(r)])]
    /\ EndCycle(r, "would_update", "none")
    /\ UNCHANGED <<other_programs, evaluation, versions, changelog, dry, attempted, committed, runs>>

\* Dry-run change: prints the first differing line and returns.
DryChange(r) ==
    /\ pc[r] = "decide" /\ HashDiffers(r) /\ dry[r]
    /\ EndCycle(r, "would_update", "none")
    /\ UNCHANGED <<other_programs, evaluation, store, dry, attempted, committed, runs>>

\* The upsert of a seed or of an unchanged cycle raises.
UpsertPageRaise(r) ==
    /\ pc[r] = "decide" /\ (NoRecord(r) \/ SameHash(r)) /\ ~dry[r]
    /\ EndCycle(r, "error", "upsert_page")
    /\ UNCHANGED <<other_programs, evaluation, store, dry, attempted, committed, runs>>

\* summary = summarize_meaningful_diff(existing.get("content", ""), text):
\* the completion service answers with some text.
Classify(r) ==
    /\ pc[r] = "decide" /\ HashDiffers(r) /\ ~dry[r]
    /\ \E resp \in LLMResponses :
          summary' = [summary EXCEPT ![r] = summarize_meaningful_diff(resp)]
    /\ pc' = [pc EXCEPT ![r] = "write"]
    /\ UNCHANGED <<other_programs, evaluation, store, dry, idx, status, text, new_hash, existing,
                   attempted, printed, committed, runs>>

\* The completion was JSON but not an object: evaluating
\* summary.get("is_meaningful_change") for the call of upsert_with_version
\* raises AttributeError, and the store is never called.
ClassifyNotObject(r) ==
    /\ pc[r] = "write" /\ ~IsDict(summary[r])
    /\ EndCycle(r, "error", "summary.get")
    /\ UNCHANGED <<other_programs, evaluation, store, dry, attempted, committed, runs>>

\* llm.generate_text raises (no API key, HTTP error of the provider).
ClassifyRaise(r) ==
    /\ pc[r] = "decide" /\ HashDiffers(r) /\ ~dry[r]
    /\ EndCycle(r, "error", "generate_text")
    /\ UNCHANGED <<other_programs, evaluation, store, dry, attempted, committed, runs>>

\* change_summary=summary if summary.get("is_meaningful_change") else None,
\* then `change_summary or {}` in upsert_with_version.
PassedSummary(sm) == IF sm.is_meaningful_change THEN sm ELSE EmptySummary

\* Mutant of WriteVersion: the change is stored with the plain upsert_page,
\* as scrape_sources.py does, and no version row is written.
WriteVersion_plain_upsert(r) ==
    /\ pc[r] = "write" /\ IsDict(summary[r])
    /\ regs' = [regs EXCEPT ![CurSource(r)] =
                   upsert_page(@, CurSource(r), text[r], new_hash[r], TRUE, now)]
    /\ rows' = [rows EXCEPT ![CurSource(r)] =
                   RowsAfterUpsert(@, regs[CurSource(r)])]
    /\ committed' = [committed EXCEPT ![CurSource(r)] = @ + 1]
    /\ IF summary[r].is_meaningful_change
       THEN /\ pc' = [pc EXCEPT ![r] = "log"]
            /\ UNCHANGED <<other_programs, evaluation, idx, locals, printed>>
       ELSE EndCycle(r, "changed", "none")
    /\ UNCHANGED <<other_programs, evaluation, versions, changelog, dry, attempted, runs>>

\* Mutant of WriteVersion: the next version number is computed by the
\* caller from the row it read at the start of the cycle.
WriteVersion_from_stale_read(r) ==
    /\ pc[r] = "write" /\ IsDict(summary[r])
    /\ regs' = [regs EXCEPT ![CurSource(r)] =
                   rpc_row(existing[r], CurSource(r), text[r], new_hash[r], now)]
    /\ rows' = [rows EXCEPT ![CurSource(r)] =
                   RowsAfterUpsert(@, regs[CurSource(r)])]
    /\ versions' = [versions EXCEPT ![CurSource(r)] =
                   rpc_versions(@, existing[r], text[r], new_hash[r],
                                PassedSummary(summary[r]), now)]
    /\ committed' = [committed EXCEPT ![CurSource(r)] = @ + 1]
    /\ IF summary[r].is_meaningful_change
       THEN /\ pc' = [pc EXCEPT ![r] = "log"]
            /\ UNCHANGED <<other_programs, evaluation, idx, locals, printed>>
       ELSE EndCycle(r, "changed", "none")
    /\ UNCHANGED <<other_programs, evaluation, changelog, dry, attempted, runs>>

\* Mutant of WriteVersion: the change log is written whatever the verdict.
WriteVersion_always_logs(r) ==
    /\ pc[r] = "write" /\ IsDict(summary[r])
    /\ regs' = [regs EXCEPT ![CurSource(r)] =
                   rpc_row(@, CurSource(r), text[r], new_hash[r], now)]
    /\ rows' = [rows EXCEPT ![CurSource(r)] =
                   RowsAfterUpsert(@, regs[CurSource(r)])]
    /\ versions' = [versions EXCEPT ![CurSource(r)] =
                   rpc_versions(@, regs[CurSource(r)], text[r], new_hash[r],
                                PassedSummary(summary[r]), now)]
    /\ committed' = [committed EXCEPT ![CurSource(r)] = @ + 1]
    /\ pc' = [pc EXCEPT ![r] = "log"]
    /\ UNCHANGED <<other_programs, evaluation, idx, locals, printed>>
    /\ UNCHANGED <<other_programs, evaluation, changelog, dry, attempted, runs>>

\* upsert_with_version commits.
WriteVersion(r) ==
    /\ pc[r] = "write" /\ IsDict(summary[r])
    /\ regs' = [regs EXCEPT ![CurSource(r)] =
                   rpc_row(@, CurSource(r), text[r], new_hash[r], now)]
    /\ rows' = [rows EXCEPT ![CurSource(r)] =
                   RowsAfterUpsert(@, regs[CurSource(r)])]
    /\ versions' = [versions EXCEPT ![CurSource(r)] =
                   rpc_versions(@, regs[CurSource(r)], text[r], new_hash[r],
                                PassedSummary(summary[r]), now)]
    /\ committed' = [committed EXCEPT ![CurSource(r)] = @ + 1]
    /\ IF summary[r].is_meaningful_change
       THEN /\ pc' = [pc EXCEPT ![r] = "log"]
            /\ UNCHANGED <<other_programs, evaluation, idx, locals, printed>>
       ELSE EndCycle(r, "changed", "none")
    /\ UNCHANGED <<other_programs, evaluation, changelog, dry, attempted, runs>>

\* Mutant of WriteVersionRaise: the failed write still stamps the row as
\* fetched.
WriteVersionRaise_marks_fetched(r) ==
    /\ pc[r] = "write" /\ IsDict(summary[r])
    /\ regs' = [regs EXCEPT ![CurSource(r)].last_fetched = now]
    /\ rows' = [rows EXCEPT ![CurSource(r)] =
                   RowsAfterUpsert(@, regs[CurSource(r)])]
    /\ EndCycle(r, "error", "upsert_with_version")
    /\ UNCHANGED <<other_programs, evaluation, versions, changelog, dry, attempted, committed, runs>>

\* upsert_with_version raises: nothing is committed.
WriteVersionRaise(r) ==
    /\ pc[r] = "write" /\ IsDict(summary[r])
    /\ EndCycle(r, "error", "upsert_with_version")
    /\ UNCHANGED <<other_programs, evaluation, store, dry, attempted, committed, runs>>

\* log_ai_change inserts the summary into regulation_change_log.
LogChange(r) ==
    /\ pc[r] = "log"
    /\ changelog' = Append(changelog,
                     [source |-> SOURCE_AUTHORITY, title |-> "MSB Obligations",
                      summary_json |-> summary[r]])
    /\ EndCycle(r, "changed", "none")
    /\ UNCHANGED <<other_programs, evaluation, rows, regs, versions, dry, attempted,
                   committed, runs>>

\* log_ai_change raises after the version was stored.
LogChangeRaise(r) ==
    /\ pc[r] = "log"
    /\ EndCycle(r, "error", "log_ai_change")
    /\ UNCHANGED <<other_programs, evaluation, store, dry, attempted, committed, runs>>

\* One step of scrape_one by runner r.
Step(r) ==
    \/ FetchReturn(r) \/ FetchRaise(r)
    \/ ReadExisting(r) \/ ReadRaise(r)
    \/ Seed(r) \/ DrySeed(r)
    \/ Unchanged(r) \/ DryUnchanged(r) \/ DryChange(r)
    \/ UpsertPageRaise(r)
    \/ Classify(r) \/ ClassifyNotObject(r) \/ ClassifyRaise(r)
    \/ WriteVersion(r) \/ WriteVersionRaise(r)
    \/ LogChange(r) \/ LogChangeRaise(r)

\* The scheduled batch job: one invocation of main() at a time.
Next ==
    \E r \in Runners :
        \/ \E d \in BOOLEAN : Begin(r, FALSE, d)
        \/ Step(r)

Spec == Init /\ [][Next]_vars

\* Two invocations of main() that overlap.
NextConc ==
    \E r \in Runners :
        \/ \E d \in BOOLEAN : Begin(r, TRUE, d)
        \/ Step(r)

SpecConc == Init /\ [][NextConc]_vars

\* ---------------------------------------------------------------- difflib
\* A text is the sequence of its lines; a line is <<name, n>>, its identity
\* and its number of characters.  Lines are not blank and carry no outer
\* whitespace, as get_text(separator="\n", strip=True) yields them.
LineLen(l) == l[2]
Max(x, y) == IF x >= y THEN x ELSE y
Min(x, y) == IF x <= y THEN x ELSE y

\* Python's seq[i:j] for 0 <= i, j <= len(seq).
Slice(seq, i, j) == SubSeq(seq, i + 1, j)

\* len("\n".join(lines))
RECURSIVE JoinedLen(_)
JoinedLen(lines) ==
    IF lines = <<>> THEN 0
    ELSE IF Tail(lines) = <<>> THEN LineLen(Head(lines))
    ELSE LineLen(Head(lines)) + 1 + JoinedLen(Tail(lines))

\* text[:n], as lines: the line the cut falls in keeps its first characters.
RECURSIVE Leading(_, _)
Leading(lines, n) ==
    IF lines = <<>> \/ n <= 0 THEN <<>>
    ELSE IF LineLen(Head(lines)) >= n THEN << <<Head(lines)[1], n>> >>
    ELSE <<Head(lines)>> \o Leading(Tail(lines), n - LineLen(Head(lines)) - 1)

\* a[i:i+k] == b[j:j+k]
BlockMatches(a, b, i, j, k) == \A d \in 1..k : a[i + d] = b[j + d]

\* SequenceMatcher.find_longest_match (no junk): the longest block common
\* to a[alo:ahi] and b[blo:bhi]; of the longest, the one that starts earliest
\* in a; of those, the one that starts earliest in b.  <<alo, blo, 0>> when
\* nothing matches.
find_longest_match(a, b, alo, ahi, blo, bhi) ==
    LET cand == {m \in (alo..ahi) \X (blo..bhi) \X (0..(ahi - alo)) :
                    /\ m[1] + m[3] <= ahi
                    /\ m[2] + m[3] <= bhi
                    /\ BlockMatches(a, b, m[1], m[2], m[3])}
        k == CHOOSE x \in {m[3] : m \in cand} : \A m \in cand : m[3] <= x
        i == CHOOSE x \in {m[1] : m \in {c \in cand : c[3] = k}} :
                 \A m \in {c \in cand : c[3] = k} : x <= m[1]
        j == CHOOSE x \in {m[2] : m \in {c \in cand : c[3] = k /\ c[1] = i}} :
                 \A m \in {c \in cand : c[3] = k /\ c[1] = i} : x <= m[2]
    IN <<i, j, k>>

\* SequenceMatcher.get_matching_blocks, in increasing order, without the
\* closing sentinel.
RECURSIVE get_matching_blocks(_, _, _, _, _, _)
get_matching_blocks(a, b, alo, ahi, blo, bhi) ==
    LET m == find_longest_match(a, b, alo, ahi, blo, bhi)
        i == m[1]
        j == m[2]
        k == m[3]
    IN IF k = 0 THEN <<>>
       ELSE (IF alo < i /\ blo < j
             THEN get_matching_blocks(a, b, alo, i, blo, j) ELSE <<>>)
            \o <<m>>
            \o (IF i + k < ahi /\ j + k < bhi
                THEN get_matching_blocks(a, b, i + k, ahi, j + k, bhi) ELSE <<>>)

\* SequenceMatcher.get_opcodes without its "equal" entries: <<i1, i2, j1, j2>>
\* for every replace, delete or insert, walking the matching blocks from
\* position (i, j) and closing with the sentinel block <<la, lb, 0>>.
RECURSIVE get_opcodes(_, _, _, _, _)
get_opcodes(blocks, i, j, la, lb) ==
    IF blocks = <<>>
    THEN IF i < la \/ j < lb THEN << <<i, la, j, lb>> >> ELSE <<>>
    ELSE LET m == Head(blocks)
         IN (IF i < m[1] \/ j < m[2] THEN << <<i, m[1], j, m[2]>> >> ELSE <<>>)
            \o get_opcodes(Tail(blocks), m[1] + m[3], m[2] + m[3], la, lb)

\* The non-equal opcodes of SequenceMatcher(None, old_lines, new_lines).
ChangedOpcodes(old, new) ==
    get_opcodes(get_matching_blocks(old, new, 0, Len(old), 0, Len(new)),
                0, 0, Len(old), Len(new))

\* Defaults of extract_changed_chunks, and the length of its fallback slices.
ContextLines == 3
MinLen == 200
LeadingChars == 4000

\* The (old_chunk, new_chunk) pair of one opcode, context included.
ChunkOf(old, new, op, context_lines) ==
    << Slice(old, Max(0, op[1] - context_lines), Min(Len(old), op[2] + context_lines)),
       Slice(new, Max(0, op[3] - context_lines), Min(Len(new), op[4] + context_lines)) >>

ChunkLen(c) == JoinedLen(c[1]) + JoinedLen(c[2])

\* Mutant of KeptChunks: every changed region is kept, whatever its length.
KeptChunks_no_threshold(old, new, context_lines, min_len) ==
    LET ops == ChangedOpcodes(old, new)
    IN [n \in 1..Len(ops) |-> ChunkOf(old, new, ops[n], context_lines)]

\* The local list `chunks` of extract_changed_chunks after its loop.
KeptChunks(old, new, context_lines, min_len) ==
    LET ops == ChangedOpcodes(old, new)
        all == [n \in 1..Len(ops) |-> ChunkOf(old, new, ops[n], context_lines)]
        Keep(c) == ChunkLen(c) >= min_len
    IN SelectSeq(all, Keep)

\* [(old[:4000], new[:4000])]
FallbackPair(old, new) == <<Leading(old, LeadingChars), Leading(new, LeadingChars)>>

\* Mutant of extract_changed_chunks: the list of kept chunks is returned as
\* it is, empty or not.
extract_changed_chunks_no_fallback(old, new, context_lines, min_len) ==
    KeptChunks(old, new, context_lines, min_len)

\* extract_changed_chunks: chunks or [(old[:4000], new[:4000])]
extract_changed_chunks(old, new, context_lines, min_len) ==
    IF KeptChunks(old, new, context_lines, min_len) # <<>>
    THEN KeptChunks(old, new, context_lines, min_len)
    ELSE <<FallbackPair(old, new)>>

\* ---------------------------------------------------------------- texts
\* A page of nine 40-character paragraphs, and a page of five short lines.
LongDoc ==
    << <<"p1", 40>>, <<"p2", 40>>, <<"p3", 40>>, <<"p4", 40>>, <<"p5", 40>>,
       <<"p6", 40>>, <<"p7", 40>>, <<"p8", 40>>, <<"p9", 40>> >>
ShortDoc ==
    << <<"q1", 10>>, <<"q2", 10>>, <<"q3", 10>>, <<"q4", 10>>, <<"q5", 10>> >>
\* Lines an edit brings in: a 5-character one, a 600-character paragraph,
\* and one longer than the leading portion.
EditLines == { <<"x", 5>>, <<"y", 600>>, <<"z", 4100>> }
\* Where an edit may fall, counted in lines from the top.
EditAt(doc) == {1, (Len(doc) + 1) \div 2, Len(doc)}

ReplaceLine(doc, i, l) == [doc EXCEPT ![i] = l]
RemoveLine(doc, i) == SubSeq(doc, 1, i - 1) \o SubSeq(doc, i + 1, Len(doc))
InsertLine(doc, i, l) == SubSeq(doc, 1, i - 1) \o <<l>> \o SubSeq(doc, i, Len(doc))

\* The texts evaluate_change is called on.
Texts ==
    {<<>>} \cup
    UNION { {doc}
            \cup {ReplaceLine(doc, i, l) : i \in EditAt(doc), l \in EditLines}
            \cup {RemoveLine(doc, i) : i \in EditAt(doc)}
            \cup {InsertLine(doc, i, l) : i \in EditAt(doc), l \in EditLines}
          : doc \in {LongDoc, ShortDoc} }

\* ---------------------------------------------------------------- ask_ai
\* {"is_meaningful_change": m, ..., "regeneration_required": g}
ParsedVerdict(m, g) ==
    [kind |-> "object", is_meaningful_change |-> m,
     has_regen |-> TRUE, regeneration_required |-> g, has_raw |-> FALSE]

\* What one call of openai.ChatCompletion.create may end in.
AskOutcomes ==
    [kind : {"json_object"}, m : BOOLEAN, g : BOOLEAN]
    \cup [kind : {"json_not_object", "not_json", "openai_error"},
          m : {FALSE}, g : {FALSE}]

\* ask_ai: json.loads(txt), or {} on JSONDecodeError and on OpenAIError.
ask_ai(o) ==
    CASE o.kind = "json_object" -> ParsedVerdict(o.m, o.g)
      [] o.kind = "json_not_object" -> NotObjectSummary
      [] OTHER -> EmptySummary

\* r.get("is_meaningful_change") and r.get("regeneration_required"), as
\* truth values.
Meaningful(v) == v.is_meaningful_change
RequestsRegen(v) == v.has_regen /\ v.regeneration_required

\* any(r.get(key) for r in rs): "True" at the first truthy value, "raise"
\* at a value without .get met before it, "False" at the end of the list.
RECURSIVE AnyGet(_, _)
AnyGet(rs, key) ==
    IF rs = <<>> THEN "False"
    ELSE IF ~IsDict(Head(rs)) THEN "raise"
    ELSE IF (IF key = "is_meaningful_change"
             THEN Meaningful(Head(rs)) ELSE RequestsRegen(Head(rs)))
         THEN "True"
    ELSE AnyGet(Tail(rs), key)

\* Mutant of evaluate_change: regeneration_required is `regen` alone.
evaluate_change_regen_alone(rs) ==
    [is_meaningful_change |-> AnyGet(rs, "is_meaningful_change") = "True",
     regeneration_required |-> AnyGet(rs, "regeneration_required") = "True",
     chunks |-> rs]

\* The dict evaluate_change returns for the list `results`.
evaluate_change(rs) ==
    [is_meaningful_change |-> AnyGet(rs, "is_meaningful_change") = "True",
     regeneration_required |->
         \/ AnyGet(rs, "regeneration_required") = "True"
         \/ AnyGet(rs, "is_meaningful_change") = "True",
     chunks |-> rs]

\* evaluate_change(old_text, new_text) is called: extract_changed_chunks.
EvalBegin ==
    /\ epc = "idle"
    /\ \E old \in Texts, new \in Texts :
          /\ old_text' = old
          /\ new_text' = new
          /\ chunks' = extract_changed_chunks(old, new, ContextLines, MinLen)
    /\ results' = <<>>
    /\ decision' = NoDecision
    /\ epc' = "ask"
    /\ UNCHANGED <<other_programs, store, pc, dry, idx, locals, attempted, printed,
                   committed, runs>>

\* results.append(ask_ai(old_chunk, new_chunk)) for the next pair.
AskAI ==
    /\ epc = "ask" /\ Len(results) < Len(chunks)
    /\ \E o \in AskOutcomes : results' = Append(results, ask_ai(o))
    /\ UNCHANGED <<other_programs, store, pc, dry, idx, locals, attempted, printed,
                   committed, runs, epc, old_text, new_text, chunks, decision>>

\* ask_ai raises something it does not catch (a network error below the
\* client library, a completion without content).
AskAIRaise ==
    /\ epc = "ask" /\ Len(results) < Len(chunks)
    /\ epc' = "raised"
    /\ UNCHANGED <<other_programs, store, pc, dry, idx, locals, attempted, printed,
                   committed, runs, old_text, new_text, chunks, results,
                   decision>>

\* The loop is over and both any(...) return: the aggregate is returned.
EvalReturn ==
    /\ epc = "ask" /\ Len(results) = Len(chunks)
    /\ AnyGet(results, "is_meaningful_change") # "raise"
    /\ AnyGet(results, "regeneration_required") # "raise"
    /\ decision' = evaluate_change(results)
    /\ epc' = "done"
    /\ UNCHANGED <<other_programs, store, pc, dry, idx, locals, attempted, printed,
                   committed, runs, old_text, new_text, chunks, results>>

\* One of the any(...) meets a result that is not a dict: AttributeError.
EvalRaise ==
    /\ epc = "ask" /\ Len(results) = Len(chunks)
    /\ \/ AnyGet(results, "is_meaningful_change") = "raise"
       \/ AnyGet(results, "regeneration_required") = "raise"
    /\ epc' = "raised"
    /\ UNCHANGED <<other_programs, store, pc, dry, idx, locals, attempted, printed,
                   committed, runs, old_text, new_text, chunks, results,
                   decision>>

\* openAIAPI.py: one call of evaluate_change on some pair of texts.
NextEval == EvalBegin \/ AskAI \/ AskAIRaise \/ EvalReturn \/ EvalRaise

SpecEval == Init /\ [][NextEval]_vars

\* ---------------------------------------------------------------- llm_adapter
\* llm.generate_text(prompt, max_output_tokens=600, temperature=0.0), the
\* one call summarize_meaningful_diff makes.
MaxOutputTokens == 600
Temperature == 0

\* What LLM_PROVIDER may be set to: the three providers, and anything else.
Providers == {"gemini", "openai", "ollama", "other"}
\* The settings read from the environment: whether GEMINI_API_KEY and
\* OPENAI_API_KEY are set, whether GEMINI_MINIMAL is 1/true/yes, whether the
\* openai package can be imported.
Envs == [gemini_key : BOOLEAN, openai_key : BOOLEAN, minimal : BOOLEAN,
         openai_pkg : BOOLEAN]

\* A request body, by the generation parameters it carries: a parameter
\* that is not sent has its flag FALSE and is left to the provider.
Request(to, has_temperature, temperature, has_cap, cap) ==
    [to |-> to,
     has_temperature |-> has_temperature,
     temperature |-> IF has_temperature THEN temperature ELSE 0,
     has_cap |-> has_cap,
     cap |-> IF has_cap THEN cap ELSE 0]

\* _call_gemini: the payload posted to :generateContent.  With
\* GEMINI_MINIMAL it is {"contents": [...]} alone, otherwise it has a
\* generationConfig with temperature and maxOutputTokens.
call_gemini(e, max_output_tokens, temperature) ==
    IF e.minimal
    THEN Request("gemini", FALSE, temperature, FALSE, max_output_tokens)
    ELSE Request("gemini", TRUE, temperature, TRUE, max_output_tokens)

\* _call_openai: chat.completions.create(..., temperature=temperature,
\* max_tokens=max_output_tokens).
call_openai(e, max_output_tokens, temperature) ==
    Request("openai", TRUE, temperature, TRUE, max_output_tokens)

\* _call_ollama: the body posted to /api/generate has
\* "options": {"temperature": ...} and nothing made of max_output_tokens.
call_ollama(e, max_output_tokens, temperature) ==
    Request("ollama", TRUE, temperature, FALSE, max_output_tokens)

\* LLMAdapter(): the provider and the settings are read from the
\* environment.
Construct ==
    /\ lpc = "start"
    /\ \E p \in Providers, e \in Envs :
          /\ provider' = p
          /\ env' = e
    /\ lpc' = "ready"
    /\ UNCHANGED <<store, pc, dry, idx, locals, attempted, printed,
                   committed, runs, evaluation, request, crawl, batch>>

\* The frame of a step of generate_text.
AdapterFrame ==
    UNCHANGED <<store, pc, dry, idx, locals, attempted, printed,
                committed, runs, evaluation, provider, env, crawl, batch>>

\* generate_text with provider gemini: the payload is posted.
CallGemini ==
    /\ lpc = "ready" /\ provider = "gemini" /\ env.gemini_key
    /\ request' = call_gemini(env, MaxOutputTokens, Temperature)
    /\ lpc' = "posted"
    /\ AdapterFrame

\* generate_text with provider openai: the completion is requested.
CallOpenAI ==
    /\ lpc = "ready" /\ provider = "openai"
    /\ env.openai_pkg /\ env.openai_key
    /\ request' = call_openai(env, MaxOutputTokens, Temperature)
    /\ lpc' = "posted"
    /\ AdapterFrame

\* generate_text with provider ollama: the body is posted.
CallOllama ==
    /\ lpc = "ready" /\ provider = "ollama"
    /\ request' = call_ollama(env, MaxOutputTokens, Temperature)
    /\ lpc' = "posted"
    /\ AdapterFrame

\* generate_text raises RuntimeError before anything is sent: the key of
\* the provider is not set, the openai package is missing, or the provider
\* is not one of the three.
CallRaise ==
    /\ lpc = "ready"
    /\ \/ provider = "gemini" /\ ~env.gemini_key
       \/ provider = "openai" /\ ~(env.openai_pkg /\ env.openai_key)
       \/ provider \notin {"gemini", "openai", "ollama"}
    /\ lpc' = "raised"
    /\ UNCHANGED request
    /\ AdapterFrame

\* The provider answers and generate_text returns the response.
Respond ==
    /\ lpc = "posted"
    /\ lpc' = "returned"
    /\ UNCHANGED request
    /\ AdapterFrame

\* The provider answers with an HTTP error (or the client library raises):
\* generate_text raises.
RespondRaise ==
    /\ lpc = "posted"
    /\ lpc' = "raised"
    /\ UNCHANGED request
    /\ AdapterFrame

\* llm_adapter.py: one adapter, one call of generate_text by the change
\* classifier.
NextLLM ==
    \/ Construct
    \/ CallGemini \/ CallOpenAI \/ CallOllama \/ CallRaise
    \/ Respond \/ RespondRaise

SpecLLM == Init /\ [][NextLLM]_vars

\* ---------------------------------------------------------------- scrape_url
\* The urls of the site a regulation links to, and a url of another domain.
SiteUrls == {"/a", "/b", "/c"}
OffSite == "//other/x"
Urls == SiteUrls \cup {OffSite}

\* The values RegulationScraper is built with (process_single_regulation
\* passes max_depth=2 and max_pages=10).
Depths == {0, 1, 2}
PageLimits == {1, 2, 3, 10}

\* for link in links[:5]
LinkLimit == 5

\* The <a href> lists, resolved by urljoin, of the pages the site may
\* serve: no link, self-links, links back and forth, a link off the site,
\* and a page whose sixth link is the only one to "/c".
LinkLists ==
    { <<>>, <<"/a">>, <<"/b">>, <<"/a", "/b">>, <<"/b", "/c">>,
      <<"/c", "/a">>, <<OffSite, "/b">>, <<"/b", "/b", "/c">>,
      <<"/a", "/a", "/a", "/a", "/a", "/c">> }

\* links[:5]
FirstLinks(links) == SubSeq(links, 1, Min(Len(links), LinkLimit))

\* urlparse(full_url).netloc == base_domain
SameDomain(url) == url \in SiteUrls

\* Mutant of Refused: the number of visited pages is not looked at.
Refused_ignoring_max_pages(url, depth) ==
    \/ depth > max_depth
    \/ url \in visited_urls

\* The two early returns of scrape_url.
Refused(url, depth) ==
    \/ depth > max_depth \/ Cardinality(visited_urls) >= max_pages
    \/ url \in visited_urls

\* A call of scrape_url: its arguments and, once the page is parsed, the
\* links its loop has still to look at.
Frame(url, depth, at, links) ==
    [url |-> url, depth |-> depth, at |-> at, links |-> links]
Top == stack[Len(stack)]
Pop == SubSeq(stack, 1, Len(stack) - 1)

CrawlFrame ==
    UNCHANGED <<store, pc, dry, idx, locals, attempted, printed,
                committed, runs, evaluation, adapter, batch>>

\* RegulationScraper(max_depth, max_pages) and scrape_regulation: the
\* first call of scrape_url, at depth 0.
CrawlBegin ==
    /\ cpc = "start"
    /\ \E d \in Depths, n \in PageLimits, url \in SiteUrls :
          /\ max_depth' = d
          /\ max_pages' = n
          /\ stack' = <<Frame(url, 0, "enter", <<>>)>>
    /\ cpc' = "crawl"
    /\ UNCHANGED <<visited_urls, fetched>>
    /\ CrawlFrame

\* The value a call returns reaches its caller; the outermost call ends
\* the crawl.
ReturnToCaller ==
    /\ stack' = Pop
    /\ cpc' = IF Len(stack) = 1 THEN "done" ELSE "crawl"

\* scrape_url returns "" at once: too deep, enough pages, or seen.
CrawlRefuse ==
    /\ cpc = "crawl" /\ Top.at = "enter"
    /\ Refused(Top.url, Top.depth)
    /\ ReturnToCaller
    /\ UNCHANGED <<max_depth, max_pages, visited_urls, fetched>>
    /\ CrawlFrame

\* The url is added to visited_urls and fetched; the site answers 200 with
\* some page, whose first links the loop will look at.
CrawlFetch ==
    /\ cpc = "crawl" /\ Top.at = "enter"
    /\ ~Refused(Top.url, Top.depth)
    /\ visited_urls' = visited_urls \cup {Top.url}
    /\ fetched' = Append(fetched, <<Top.url, Top.depth>>)
    /\ \E links \in LinkLists :
          stack' = [stack EXCEPT ![Len(stack)] =
                       Frame(Top.url, Top.depth, "links", FirstLinks(links))]
    /\ UNCHANGED <<cpc, max_depth, max_pages>>
    /\ CrawlFrame

\* The url is added to visited_urls and fetched; the answer is not 200, or
\* the request or the parsing raises: "" is returned.
CrawlFetchFails ==
    /\ cpc = "crawl" /\ Top.at = "enter"
    /\ ~Refused(Top.url, Top.depth)
    /\ visited_urls' = visited_urls \cup {Top.url}
    /\ fetched' = Append(fetched, <<Top.url, Top.depth>>)
    /\ ReturnToCaller
    /\ UNCHANGED <<max_depth, max_pages>>
    /\ CrawlFrame

\* The loop takes the next link: a link of the same domain that is not in
\* visited_urls is scraped at depth + 1.
CrawlFollow ==
    /\ cpc = "crawl" /\ Top.at = "links" /\ Top.links # <<>>
    /\ SameDomain(Head(Top.links)) /\ Head(Top.links) \notin visited_urls
    /\ stack' = Append([stack EXCEPT ![Len(stack)].links = Tail(@)],
                       Frame(Head(Top.links), Top.depth + 1, "enter", <<>>))
    /\ UNCHANGED <<cpc, max_depth, max_pages, visited_urls, fetched>>
    /\ CrawlFrame

\* The loop takes the next link and passes it over: another domain, or
\* already in visited_urls.
CrawlSkipLink ==
    /\ cpc = "crawl" /\ Top.at = "links" /\ Top.links # <<>>
    /\ ~(SameDomain(Head(Top.links)) /\ Head(Top.links) \notin visited_urls)
    /\ stack' = [stack EXCEPT ![Len(stack)].links = Tail(@)]
    /\ UNCHANGED <<cpc, max_depth, max_pages, visited_urls, fetched>>
    /\ CrawlFrame

\* The loop is over: the text is returned.
CrawlReturn ==
    /\ cpc = "crawl" /\ Top.at = "links" /\ Top.links = <<>>
    /\ ReturnToCaller
    /\ UNCHANGED <<max_depth, max_pages, visited_urls, fetched>>
    /\ CrawlFrame

\* regulation_scraper.py: one crawl of one RegulationScraper.
NextCrawl ==
    \/ CrawlBegin
    \/ CrawlRefuse \/ CrawlFetch \/ CrawlFetchFails
    \/ CrawlFollow \/ CrawlSkipLink \/ CrawlReturn

SpecCrawl == Init /\ [][NextCrawl]_vars

\* ---------------------------------------------------------------- process_all_regulations
\* A value of a text column or of a dict key: None, or a string, known by
\* what it is and by its number of characters.
None == [kind |-> "None", chars |-> 0]
Text(kind, chars) == [kind |-> kind, chars |-> chars]
EmptyText == Text("", 0)
\* bool(t)
Truthy(t) == t # None /\ t.chars > 0
\* t[:n]
First(t, n) == Text(t.kind, Min(t.chars, n))

\* analyze_with_ai: the least content it analyzes, the length it cuts the
\* content to, the length of the marker it appends to cut content, and the
\* length of the raw content it returns.
MinContent == 100
MaxChars == 50000
MarkerChars == 24
RawKept == 5000

\* What scrape_regulation may return as content: a page under MinContent
\* characters, a page, and a page over MaxChars.
ScrapedTexts == {Text("page", 60), Text("page", 3000), Text("page", 60000)}
\* response.text of the AI.
AnalysisTexts == {Text("analysis 1", 1500), Text("analysis 2", 1500)}

\* f"AI analysis unavailable. Raw content length: {len(content)} characters."
Unavailable(content) ==
    Text("AI analysis unavailable", IF content.chars < 10000 THEN 61 ELSE 62)

\* What the site and the AI do while one regulation is processed: the
\* content scrape_regulation gets (None when it returns None), and whether
\* the AI answers, raises, or has no key.
Outcomes ==
    { o \in [scraped : {None} \cup ScrapedTexts,
              ai : {"ok", "raises", "no_key"},
              analysis : AnalysisTexts] :
        /\ (o.scraped = None \/ o.scraped.chars < MinContent)
              => (o.ai = "ok" /\ o.analysis = Text("analysis 1", 1500))
        /\ o.ai # "ok" => o.analysis = Text("analysis 1", 1500) }

NoTitle == "(null)"
RegName == "Name"

\* The rows of the regulations table before the job: content is NULL, an
\* analysis stored by an earlier job, or raw content stored by an earlier
\* job whose analysis failed; title is NULL or set.
StoredRows(id) ==
    [id : {id}, name : {RegName}, title : {NoTitle, "Title"},
     content : {None, Text("analysis 1", 1500), Text("page", 3000)},
     status : {"unchanged"}]
StoredTables ==
    {<<>>} \cup {<<r1>> : r1 \in StoredRows(1)}
           \cup {<<r1, r2>> : r1 \in StoredRows(1), r2 \in StoredRows(2)}

\* The dict analyze_with_ai returns.
Analysis(st, status_message, has_content, content) ==
    [status |-> st, status_message |-> status_message,
     has_content |-> has_content, content |-> content]

analyze_with_ai(content, o) ==
    IF ~Truthy(content) \/ content.chars < MinContent
    THEN Analysis("error", "Insufficient content scraped", FALSE, None)
    ELSE LET cut == IF content.chars > MaxChars
                    THEN Text(content.kind, MaxChars + MarkerChars)
                    ELSE content
         IN CASE o.ai = "raises"
                   -> Analysis("error", "AI analysis failed", TRUE, First(cut, RawKept))
              [] o.ai = "no_key"
                   -> Analysis("unchanged", "Successfully analyzed", TRUE,
                               Unavailable(cut))
              [] OTHER
                   -> Analysis("unchanged", "Successfully analyzed", TRUE,
                               o.analysis)

\* An entry of `results`: the keys it has and their values.
Result(id, st, status_message, has_content, content, has_title, title) ==
    [regulation_id |-> id, status |-> st,
     status_message |-> status_message,
     has_content |-> has_content, content |-> content,
     has_title |-> has_title, title |-> title]

\* The scrape of the regulation failed, or its analysis returned 'error'.
Failed(o) ==
    \/ ~Truthy(o.scraped)
    \/ analyze_with_ai(o.scraped, o).status = "error"

process_single_regulation(regulation, o) ==
    IF ~Truthy(o.scraped)
    THEN Result(regulation.id, "error", "Failed to scrape content",
                FALSE, None, FALSE, NoTitle)
    ELSE LET analysis == analyze_with_ai(o.scraped, o)
             existing_content == regulation.content
             new_content == IF analysis.has_content THEN analysis.content
                            ELSE EmptyText
             changed == Truthy(existing_content) /\ existing_content # new_content
         IN Result(regulation.id,
                   IF changed THEN "changed" ELSE analysis.status,
                   IF changed THEN "Regulation content has been updated"
                   ELSE analysis.status_message,
                   TRUE, new_content,
                   TRUE, IF regulation.title # NoTitle THEN regulation.title
                         ELSE regulation.name)

\* The entry the except branch of the loop appends.
ErrorEntry(regulation) ==
    Result(regulation.id, "error", "exception", FALSE, None, FALSE, NoTitle)

\* update(update_data).eq("id", ...): result.get(key) is written to the
\* columns content, title and status, None for a key the result lacks.
UpdatedRow(row, res) ==
    [row EXCEPT !.content = IF res.has_content THEN res.content ELSE None,
                !.title = IF res.has_title THEN res.title ELSE NoTitle,
                !.status = res.status]

JobFrame ==
    UNCHANGED <<store, pc, dry, idx, locals, attempted, printed,
                committed, runs, evaluation, adapter, crawl>>

\* The loop goes to the next regulation, or ends.
NextRegulation ==
    /\ bi' = bi + 1
    /\ happens' = NoOutcome
    /\ bpc' = IF bi < Len(regulations) THEN "process" ELSE "done"

\* process_all_regulations reads the table.
JobBegin ==
    /\ bpc = "start"
    /\ \E stored \in StoredTables :
          /\ table' = stored
          /\ regulations' = stored
          /\ bpc' = IF stored = <<>> THEN "done" ELSE "process"
    /\ UNCHANGED <<bi, happens, result, bresults>>
    /\ JobFrame

\* process_single_regulation returns and its result is appended.
ProcessSingle ==
    /\ bpc = "process"
    /\ \E o \in Outcomes :
          /\ happens' = o
          /\ result' = process_single_regulation(regulations[bi], o)
          /\ bresults' = Append(bresults,
                                process_single_regulation(regulations[bi], o))
    /\ bpc' = "update"
    /\ UNCHANGED <<table, regulations, bi>>
    /\ JobFrame

\* process_single_regulation raises: the except branch appends an entry.
ProcessRaises ==
    /\ bpc = "process"
    /\ bresults' = Append(bresults, ErrorEntry(regulations[bi]))
    /\ NextRegulation
    /\ UNCHANGED <<table, regulations, result>>
    /\ JobFrame

\* The row of the regulation is updated from the result.
UpdateRow ==
    /\ bpc = "update"
    /\ table' = [table EXCEPT ![result.regulation_id] = UpdatedRow(@, result)]
    /\ NextRegulation
    /\ UNCHANGED <<regulations, result, bresults>>
    /\ JobFrame

\* The update raises: the except branch appends an entry.
UpdateRaises ==
    /\ bpc = "update"
    /\ bresults' = Append(bresults, ErrorEntry(regulations[bi]))
    /\ NextRegulation
    /\ UNCHANGED <<table, regulations, result>>
    /\ JobFrame

\* regulation_scraper.py: one call of process_all_regulations.
NextJob ==
    \/ JobBegin
    \/ ProcessSingle \/ ProcessRaises
    \/ UpdateRow \/ UpdateRaises

SpecJob == Init /\ [][NextJob]_vars

\* ---------------------------------------------------------------- prompt
\* old_text[:12000] and new_text[:12000] in the prompt.
PromptChars == 12000

\* The two texts that summarize_meaningful_diff puts in the prompt when
\* scrape_one calls it with (existing.get("content", ""), text).
ClassifierInput(r) ==
    << Leading(AsLines(existing[r].content), PromptChars),
       Leading(AsLines(text[r]), PromptChars) >>

\* ---------------------------------------------------------------- claims
\* Runner r ends an iteration of main's loop in this step.
CycleEnds(r) == printed'[r].n = printed[r].n + 1
\* Runner r ends an iteration in this step and prints outcome o.
CycleEndsWith(r, o) == CycleEnds(r) /\ printed'[r].outcome = o
LastVersion(vs) == vs[Len(vs)]
HasVerdict(v) == v.change_summary # EmptySummary

\* C1: for every source the stored version numbers are exactly 1..K, K the
\* number of committed content writes (the seed and every change cycle).
C1_VersionsAreOneToK ==
    \A s \in Sources :
        /\ Len(versions[s]) = committed[s]
        /\ \A i \in 1..Len(versions[s]) : versions[s][i].version_no = i

\* C2: a live seed (no stored record) writes version 1 with no verdict and
\* sets the current-version pointer to 1.
C2_SeedWritesVersionOne ==
    [][\A r \in Runners :
          (pc[r] = "decide" /\ NoRecord(r) /\ ~dry[r] /\ CycleEndsWith(r, "inserted"))
          => /\ Len(versions'[CurSource(r)]) = 1
             /\ versions'[CurSource(r)][1].version_no = 1
             /\ ~HasVerdict(versions'[CurSource(r)][1])
             /\ regs'[CurSource(r)].current_version_no = 1]_vars

\* C3: a source whose only content write is its seed, found unchanged by
\* the previous live run (which wrote last_fetched alone) and found
\* unchanged again by this live run, has exactly one stored version.
C3_TwoUnchangedRunsOneVersion ==
    [][\A r \in Runners :
          (/\ pc[r] = "decide" /\ ~dry[r] /\ SameHash(r)
           /\ committed[CurSource(r)] = 1
           /\ regs[CurSource(r)].last_fetched = now - 1
           /\ regs[CurSource(r)].last_updated < now - 1
           /\ CycleEndsWith(r, "unchanged"))
          => Len(versions'[CurSource(r)]) = 1]_vars

\* C4: in a live cycle whose fetched fingerprint equals the stored one, no
\* version and no change-log row is written and the source row changes in
\* last_fetched only, which the committed write sets to the current time.
C4_RecordUnchangedFrame ==
    [][\A r \in Runners :
          (pc[r] = "decide" /\ ~dry[r] /\ SameHash(r))
          => /\ versions' = versions
             /\ changelog' = changelog
             /\ \A q \in Sources \ {CurSource(r)} : regs'[q] = regs[q]
             /\ regs'[CurSource(r)] =
                   [regs[CurSource(r)] EXCEPT
                       !.last_fetched = regs'[CurSource(r)].last_fetched]
             /\ (CycleEndsWith(r, "unchanged")
                   => regs'[CurSource(r)].last_fetched = now)]_vars

\* A source holds a row that an unchanged cycle touched after its content
\* was last written.
C4_Witness ==
    \E s \in Sources :
        /\ regs[s] # NoRec
        /\ regs[s].last_fetched > regs[s].last_updated
        /\ \E r \in Runners : printed[r].outcome = "unchanged" /\ ~dry[r]

\* The effect of a change cycle on source s, counted from the row that the
\* cycle read: one version more, numbered pointer + 1, pointer advanced,
\* both timestamps set.
ChangeRecorded(s, before) ==
    /\ Cardinality({i \in 1..Len(versions'[s]) :
                      versions'[s][i].version_no > before.current_version_no}) = 1
    /\ Len(versions'[s]) >= 1
    /\ LastVersion(versions'[s]).version_no = before.current_version_no + 1
    /\ regs'[s].current_version_no = before.current_version_no + 1
    /\ regs'[s].last_fetched = now
    /\ regs'[s].last_updated = now

C6_VerdictOnlyWhenMeaningful ==
    [][\A r \in Runners :
          (pc[r] = "write" /\ versions'[CurSource(r)] # versions[CurSource(r)])
          => /\ HasVerdict(LastVersion(versions'[CurSource(r)]))
                  <=> summary[r].is_meaningful_change
             /\ \A i \in 1..Len(versions'[CurSource(r)]) :
                   versions'[CurSource(r)][i].version_no = 1
                     => ~HasVerdict(versions'[CurSource(r)][i])]_vars

\* C7: every stored version is still stored, with the same number, content
\* and fingerprint, after every step of the pipeline.
C7_AppendOnly ==
    [][\A s \in Sources : \A k \in 1..Len(versions[s]) :
          /\ Len(versions'[s]) >= k
          /\ versions'[s][k] = versions[s][k]]_vars

\* A version is stored and a later cycle has written to the same source.
C7_Witness ==
    \E s \in Sources :
        /\ Len(versions[s]) >= 1
        /\ regs[s].last_fetched > versions[s][1].created_at

LiveOutcomes == {"inserted", "unchanged", "changed", "error"}
DryRunOutcomes == {"would_insert", "would_update"}

\* In a run, scrape_one was called on the sources in list order, once each,
\* every call but the one in progress has printed one outcome from `allowed`,
\* and the run ends only after the last source.
RunIsolated(r, allowed) ==
    /\ attempted[r] = [i \in 1..Len(attempted[r]) |-> i]
    /\ Len(attempted[r]) <= NumSources
    /\ printed[r].n = (IF pc[r] \in {"fetch", "done"}
                       THEN Len(attempted[r]) ELSE Len(attempted[r]) - 1)
    /\ printed[r].n > 0 => printed[r].outcome \in allowed
    /\ (pc[r] = "done" /\ attempted[r] # <<>>) => Len(attempted[r]) = NumSources

\* C9 as stated: every source is attempted once per run, in list order,
\* whatever raises, and ends as inserted, unchanged, changed or error.
C9_IsolationLiveOutcomes ==
    \A r \in Runners : RunIsolated(r, LiveOutcomes)

\* C9 amended: the same, the outcome of a dry run being would-insert,
\* unchanged, would-update or error.
C9_Isolation ==
    \A r \in Runners :
        /\ RunIsolated(r, LiveOutcomes \cup DryRunOutcomes)
        /\ (printed[r].n > 0 /\ ~dry[r]) => printed[r].outcome \in LiveOutcomes

\* A live run ended after the first source failed (no row) and the second
\* one was still processed and seeded.
C9_Witness ==
    /\ pc[1] = "done" /\ runs = 1 /\ ~dry[1]
    /\ attempted[1] = <<1, 2>>
    /\ regs[1] = NoRec /\ regs[2] # NoRec
    /\ printed[1] = [n |-> 2, outcome |-> "inserted", raised |-> "none"]

\* C10: a fetch that does not answer 2xx ends the cycle with an error and
\* leaves the store as it was.
C10_FetchFailureNoMutation ==
    [][\A r \in Runners :
          (pc[r] = "fetch" /\ attempted'[r] # attempted[r] /\ status'[r] # "2xx")
          => /\ CycleEndsWith(r, "error")
             /\ UNCHANGED store]_vars

\* C11: in a live change cycle, once the completion service has returned a
\* text, whatever it is, the cycle appends the version holding the fetched
\* text; the only way it ends without is the store write itself raising.
C11_ParseFailureNeverBlocks ==
    [][\A r \in Runners :
          (pc[r] = "write" /\ pc'[r] # "write")
          => \/ /\ Len(versions'[CurSource(r)]) = Len(versions[CurSource(r)]) + 1
                /\ LastVersion(versions'[CurSource(r)]).content = text[r]
             \/ WriteVersionRaise(r)]_vars

\* The verdict is fail-closed: not meaningful, regeneration_required present
\* and false, raw response kept.
FailClosed(v) ==
    /\ ~v.is_meaningful_change
    /\ v.has_regen /\ ~v.regeneration_required
    /\ v.has_raw

\* C12: the verdict that classification yields for a completion text that
\* is not parseable as JSON has is_meaningful_change false and
\* regeneration_required false and holds the raw text.
C12_FailClosedClassification ==
    [][\A r \in Runners :
          (/\ pc[r] = "decide" /\ pc'[r] = "write"
           /\ \E resp \in NotParseable : summary'[r] = summarize_meaningful_diff(resp))
          => FailClosed(summary'[r])]_vars

\* The source whose cycle runner r ended last.
LastAttempted(r) == attempted[r][Len(attempted[r])]

Moves(r) == <<pc[r], printed[r]>>' # <<pc[r], printed[r]>>

NonEmptyResults == SelectSeq(results, LAMBDA v : v # EmptySummary)

MaskDates(page) ==
    [i \in 1..Len(page) |->
        IF page[i] \in DateStampLines THEN "Date modified: YYYY-MM-DD"
        ELSE IF i > 1 /\ page[i - 1] = DateLabel /\ page[i] \in Dates
             THEN "YYYY-MM-DD"
        ELSE page[i]]

\* Two pages that differ, and only in the date of their date stamp.
DifferOnlyInDate(h1, h2) == h1 # h2 /\ MaskDates(h1) = MaskDates(h2)

\* C16: when the page stored for a source and the page fetched now differ
\* only in the date of the "Date modified" stamp, their normalized texts and
\* fingerprints are equal, and the live cycle goes the unchanged way: it
\* asks for no classification and writes no version.
C16_DateLineSuppression ==
    [][\A r \in Runners :
          \A h1, h2 \in PagesAt(CurSource(r)) :
              (/\ DifferOnlyInDate(h1, h2)
               /\ pc[r] = "decide" /\ ~dry[r] /\ Moves(r)
               /\ existing[r] # NoRec
               /\ existing[r].content = clean_text(h1)
               /\ text[r] = clean_text(h2))
              => /\ clean_text(h1) = clean_text(h2)
                 /\ existing[r].content_hash = new_hash[r]
                 /\ pc'[r] # "write"
                 /\ versions' = versions]_vars

\* The changed regions of the two texts: as the lines that changed, and
\* with up to ContextLines lines of context on both sides.
EditsAlone(old, new) ==
    LET ops == ChangedOpcodes(old, new)
    IN [n \in 1..Len(ops) |-> ChunkOf(old, new, ops[n], 0)]
EditsInContext(old, new) ==
    LET ops == ChangedOpcodes(old, new)
    IN [n \in 1..Len(ops) |-> ChunkOf(old, new, ops[n], ContextLines)]

\* extract_changed_chunks has just returned to evaluate_change.
Extracted == epc = "ask" /\ results = <<>>

\* extract_changed_chunks kept no chunk and returned the fallback pair.
FellBack ==
    /\ KeptChunks(old_text, new_text, ContextLines, MinLen) = <<>>
    /\ chunks = <<FallbackPair(old_text, new_text)>>

C18_OneRowPerSourceUrl ==
    \A s \in Sources :
        /\ rows[s] <= 1
        /\ rows[s] = 1 <=> regs[s] # NoRec

\* Two overlapping runs both found no record of a source and both seeded
\* it: two content writes committed, no version written, one row.
C18_Witness ==
    \E s \in Sources :
        /\ committed[s] = 2
        /\ versions[s] = <<>>
        /\ rows[s] = 1

\* The committed store operations of runner r in this step.
SeedCommitted(r) ==
    pc[r] = "decide" /\ ~dry[r] /\ CycleEndsWith(r, "inserted")
UnchangedCommitted(r) ==
    pc[r] = "decide" /\ ~dry[r] /\ CycleEndsWith(r, "unchanged")
ChangeCommitted(r) ==
    pc[r] = "write" /\ (pc'[r] = "log" \/ CycleEndsWith(r, "changed"))

\* C19: with sequential runs, a seed is committed for a source only while
\* it has no record and nothing was committed for it before, and gives it a
\* record; record_unchanged and record_change are committed only for a
\* source that has a record; a record never goes away, and nothing but
\* these three operations changes the row or the versions of a source.
C19_PerSourceStateMachine ==
    [][/\ \A r \in Runners :
             /\ SeedCommitted(r)
                  => /\ regs[CurSource(r)] = NoRec
                     /\ committed[CurSource(r)] = 0
                     /\ regs'[CurSource(r)] # NoRec
             /\ (UnchangedCommitted(r) \/ ChangeCommitted(r))
                  => /\ regs[CurSource(r)] # NoRec
                     /\ committed[CurSource(r)] >= 1
       /\ \A s \in Sources :
             /\ regs[s] # NoRec => regs'[s] # NoRec
             /\ (regs'[s] # regs[s] \/ versions'[s] # versions[s])
                  => \E r \in Runners :
                        /\ CurSource(r) = s
                        /\ \/ SeedCommitted(r)
                           \/ UnchangedCommitted(r)
                           \/ ChangeCommitted(r)]_vars

\* A source was seeded in one run, changed in the next and found unchanged
\* in the one after.
C19_Witness ==
    \E s \in Sources :
        /\ committed[s] = 2
        /\ Len(versions[s]) = 1
        /\ versions[s][1].created_at = 2
        /\ regs[s].last_updated = 2
        /\ regs[s].last_fetched = 3

\* C20: in a live cycle on a stored record, when the fingerprints differ
\* the texts given to the classifier are an excerpt pair that
\* extract_changed_chunks returns for the stored and the fetched text, and
\* a version is written only by the store write that follows the
\* classification; when the fingerprints are equal the cycle ends in this
\* step, without classification and without a version.
C20_OrchestratorSteps ==
    [][\A r \in Runners :
          /\ (pc[r] = "decide" /\ ~dry[r] /\ HashDiffers(r) /\ pc'[r] = "write")
               => LET excerpts ==
                          extract_changed_chunks(AsLines(existing[r].content),
                                                 AsLines(text[r]),
                                                 ContextLines, MinLen)
                  IN \E n \in 1..Len(excerpts) : ClassifierInput(r) = excerpts[n]
          /\ (Moves(r) /\ versions'[CurSource(r)] # versions[CurSource(r)])
               => pc[r] = "write"
          /\ (pc[r] = "decide" /\ ~dry[r] /\ SameHash(r) /\ Moves(r))
               => /\ CycleEnds(r)
                  /\ pc'[r] \notin {"write", "log"}
                  /\ versions' = versions]_vars

\* C21: whatever the two texts, extract_changed_chunks returns at least
\* one (old slice, new slice) pair, and when no changed region reaches
\* MinLen it returns exactly one pair, the leading LeadingChars characters
\* of each full text.
C21_NeverEmptyChunks ==
    Extracted =>
        /\ Len(chunks) >= 1
        /\ KeptChunks(old_text, new_text, ContextLines, MinLen) = <<>>
              => /\ Len(chunks) = 1
                 /\ chunks[1] = <<Leading(old_text, LeadingChars),
                                  Leading(new_text, LeadingChars)>>

\* The two texts are the same page, which opens with a line longer than
\* the leading portion: nothing changed, and the one pair returned is
\* that line cut at LeadingChars characters, twice.
C21_Witness ==
    /\ Extracted
    /\ old_text = ReplaceLine(LongDoc, 1, <<"z", 4100>>)
    /\ new_text = old_text
    /\ ChangedOpcodes(old_text, new_text) = <<>>
    /\ chunks = << << << <<"z", 4000>> >>, << <<"z", 4000>> >> >> >>

\* C22: a step of the cycle that a runner runs on one source, whatever the
\* step and however the cycle ends, leaves the regulations row and the
\* version history of every other source as they were.
C22_WritesScopedPerSource ==
    [][\A r \in Runners :
          Moves(r) => \A q \in Sources \ {CurSource(r)} :
                          /\ regs'[q] = regs[q]
                          /\ versions'[q] = versions[q]
                          /\ rows'[q] = rows[q]]_vars

\* A run has stored a change of the first source and is about to fetch the
\* second, whose row was last written in an earlier run and has no version.
C22_Witness ==
    \E r \in Runners :
        /\ pc[r] = "fetch" /\ CurSource(r) = 2
        /\ printed[r].outcome = "changed"
        /\ regs[1] # NoRec /\ regs[1].last_updated = now
        /\ Len(versions[1]) >= 1
        /\ regs[2] # NoRec /\ regs[2].last_fetched < now
        /\ versions[2] = <<>>

\* C23: every completion request that generate_text posts for the change
\* classifier, whatever the provider and the settings of the adapter,
\* carries temperature 0 and a cap on the size of the output.
C23_PinnedGenerationParameters ==
    request # NoRequest =>
        /\ request.has_temperature /\ request.temperature = Temperature
        /\ request.has_cap /\ request.cap = MaxOutputTokens

\* C24: with sequential runs, any two consecutive stored versions of a
\* source have different fingerprints, and a step appends a version only
\* in a cycle whose fetched fingerprint differs from the fingerprint the
\* row of the source holds at that moment.
C24_ConsecutiveVersionsDiffer ==
    [][\A s \in Sources :
          /\ \A i \in 1..(Len(versions'[s]) - 1) :
                 versions'[s][i].content_hash # versions'[s][i + 1].content_hash
          /\ versions'[s] # versions[s]
               => \E r \in Runners :
                     /\ CurSource(r) = s /\ Moves(r)
                     /\ regs[s] # NoRec
                     /\ regs[s].content_hash # new_hash[r]
                     /\ LastVersion(versions'[s]).content_hash = new_hash[r]]_vars

\* A source has two versions, written by two runs, and the second holds
\* the text the source was seeded with.
C24_Witness ==
    \E s \in Sources :
        /\ Len(versions[s]) = 2
        /\ versions[s][1].created_at < versions[s][2].created_at
        /\ versions[s][1].content # versions[s][2].content
        /\ committed[s] = 3

\* Runner r ends a live cycle in this step without an exception: a seed,
\* an unchanged cycle or a change.
LiveCycleCompletes(r) ==
    /\ ~dry[r]
    /\ CycleEnds(r)
    /\ printed'[r].outcome \in {"inserted", "unchanged", "changed"}

\* C25: when a live cycle of scrape_one returns (seed, unchanged or
\* changed), the fingerprint stored in the row of its source is the
\* SHA-256 of the content stored there and is the fingerprint of the text
\* the cycle fetched.
C25_StoredHashMatchesContent ==
    [][\A r \in Runners :
          LiveCycleCompletes(r)
          => /\ regs'[CurSource(r)] # NoRec
             /\ regs'[CurSource(r)].content_hash
                   = sha256(regs'[CurSource(r)].content)
             /\ regs'[CurSource(r)].content_hash = new_hash[r]
             /\ new_hash[r] = sha256(text[r])]_vars

\* A run has just ended a change cycle: the row of the source holds the
\* text of its newest version, which is not the text of the version before.
C25_Witness ==
    \E r \in Runners :
        /\ pc[r] \in {"fetch", "done"} /\ ~dry[r]
        /\ attempted[r] # <<>>
        /\ printed[r].outcome = "changed"
        /\ Len(versions[LastAttempted(r)]) = 2
        /\ regs[LastAttempted(r)].content
              = versions[LastAttempted(r)][2].content
        /\ regs[LastAttempted(r)].content_hash
              # versions[LastAttempted(r)][1].content_hash

\* The version that the cycle of runner r stored is the newest of its
\* source and is what the row holds.
VersionStored(r) ==
    /\ Len(versions[CurSource(r)]) >= 1
    /\ LastVersion(versions[CurSource(r)]).content = text[r]
    /\ LastVersion(versions[CurSource(r)]).created_at = now
    /\ regs[CurSource(r)].content_hash = new_hash[r]

\* C26: a step writes a change-log entry only for a cycle whose verdict is
\* meaningful and whose version write has committed, and the entry is the
\* verdict; a change cycle that returns has written an entry exactly when
\* its verdict is meaningful; a cycle whose version write raises writes no
\* entry; and when the change-log insert raises, the version stored by the
\* cycle stays stored.
C26_ChangeLogAfterVersion ==
    [][\A r \in Runners :
          /\ (Moves(r) /\ changelog' # changelog)
               => /\ pc[r] = "log"
                  /\ summary[r].is_meaningful_change
                  /\ VersionStored(r)
                  /\ Len(changelog') = Len(changelog) + 1
                  /\ changelog'[Len(changelog')].summary_json = summary[r]
          /\ CycleEndsWith(r, "changed")
               => (changelog' # changelog <=> summary[r].is_meaningful_change)
          /\ (pc[r] = "write" /\ CycleEndsWith(r, "error"))
               => changelog' = changelog
          /\ (pc[r] = "log" /\ CycleEndsWith(r, "error"))
               => /\ VersionStored(r)
                  /\ versions' = versions /\ regs' = regs
                  /\ changelog' = changelog]_vars

\* Two meaningful changes of a source were stored with their verdicts; the
\* first was logged, the change-log insert of the second has just raised.
C26_Witness ==
    \E r \in Runners :
        /\ pc[r] \in {"fetch", "done"}
        /\ printed[r].raised = "log_ai_change"
        /\ Len(changelog) = 1
        /\ Len(versions[LastAttempted(r)]) = 2
        /\ HasVerdict(versions[LastAttempted(r)][1])
        /\ HasVerdict(versions[LastAttempted(r)][2])
        /\ versions[LastAttempted(r)][2].created_at = now

\* C27: at every moment of a crawl, visited_urls holds at most max_pages
\* urls, no url was fetched twice, and no url was fetched at a depth
\* greater than max_depth.
C27_CrawlBounds ==
    /\ Cardinality(visited_urls) <= max_pages
    /\ \A i, j \in 1..Len(fetched) : fetched[i][1] = fetched[j][1] => i = j
    /\ \A i \in 1..Len(fetched) : fetched[i][2] <= max_depth
    /\ visited_urls = {fetched[i][1] : i \in 1..Len(fetched)}

\* A crawl limited to two pages and to depth 2 has returned: it fetched
\* "/a" and, following a link of its page, "/b", and nothing else.
C27_Witness ==
    /\ cpc = "done"
    /\ max_pages = 2 /\ max_depth = 2
    /\ fetched = << <<"/a", 0>>, <<"/b", 1>> >>
    /\ visited_urls = {"/a", "/b"}

\* C28: whenever the scrape of a regulation fails or analyze_with_ai
\* returns status 'error', the result that process_single_regulation
\* returns has status 'error', whatever content is stored.
C28_ErrorStatusNotMasked ==
    [][(bpc = "process" /\ bpc' = "update" /\ Failed(happens'))
          => result'.status = "error"]_vars

\* C29: the update of a regulation whose scrape or analysis failed in
\* this job leaves the content and the title its row had before the job.
C29_FailedKeepsContent ==
    [][(bpc = "update" /\ bpc' # "update" /\ Failed(happens))
          => /\ table'[bi].content = regulations[bi].content
             /\ table'[bi].title = regulations[bi].title]_vars

\* C30: when process_all_regulations returns, `results` has one entry for
\* each regulation read, in the order read.
C30_OneResultPerRegulation ==
    bpc = "done" =>
        /\ Len(bresults) = Len(regulations)
        /\ \A i \in 1..Len(regulations) :
               bresults[i].regulation_id = regulations[i].id

====
